---- MODULE Spec2Model ----
(***************************************************************************)
(* The two policy-gradient training steps of src/src/drugex/agent.py:      *)
(* PG.__call__ (whole-sequence REINFORCE) and rollout_pg (per-token        *)
(* rewards by Monte Carlo rollout).                                        *)
(*                                                                         *)
(* Arrays are functions over 0..n-1, as numpy and torch index them.        *)
(* Rewards, scores and the baseline are counted in tenths (baseline 0.2 is *)
(* 2); a quotient x / n is kept exact as the fraction [num |-> x,          *)
(* den |-> n]. Floating-point rounding is not modelled.                    *)
(***************************************************************************)
EXTENDS Integers, Sequences, FiniteSets, TLC

VARIABLES pc, batch_size, seq_len, mc, baseline, envSeed,
          seqs, smiles, valids, preds, rewards, rep, pos, subpred,
          subseqs, last, contribs, log, loader, lossArgs, ret,
          params, scores, hiddens, inits

vars == <<pc, batch_size, seq_len, mc, baseline, envSeed,
          seqs, smiles, valids, preds, rewards, rep, pos, subpred,
          subseqs, last, contribs, log, loader, lossArgs, ret,
          params, scores, hiddens, inits>>

\* Bounds of the model.
MaxBatch == 2
MaxLen == 3
MaxMC == 2
\* Cap on the tokens the rollouts of one call resample: in each of the mc
\* repetitions, seq_len - i - 1 tokens per sequence at position i.
MaxResampled == 12

\* Token 0 is the terminator/pad (the gate of agent.py:88 tests it); the
\* vocabulary has one other token.
Tokens == {0, 1}
\* --baseline, in tenths: the default 0.1 and the 0.2 of the test scenarios.
Baselines == {1, 2}
\* Which environment (predictor) the call is given.
EnvSeeds == {0, 1}

Empty == <<>>

Rows(n) == 0 .. (n - 1)

Ratio(x, n) == [num |-> x, den |-> n]

RatEq(a, b) == a.num * b.den = b.num * a.den

RECURSIVE SumTo(_, _)
\* f[0] + ... + f[n-1]
SumTo(f, n) == IF n = 0 THEN 0 ELSE f[n - 1] + SumTo(f, n - 1)

RECURSIVE SeqSum(_, _)
\* q[1][s] + ... + q[Len(q)][s] for a sequence q of vectors
SeqSum(q, s) == IF q = <<>> THEN 0 ELSE Head(q)[s] + SeqSum(Tail(q), s)

------------------------------------------------------------------------------
\* External capabilities: the Generator's sampler, the vocabulary's decoder,
\* the validity check and the Environment.

\* A token sequence of length n as the sampler emits it: only pad after the
\* first terminator.
Padded(n) ==
    {f \in [Rows(n) -> Tokens] : \A p, q \in Rows(n) : (p < q /\ f[p] = 0) => f[q] = 0}

\* Generator.sample(n): n sequences of the fixed maximum length.
SampleBatches(n, len) == [Rows(n) -> Padded(len)]

\* Position of the first terminator of seq, its length when it has none.
FirstZero(seq) ==
    LET n == Cardinality(DOMAIN seq)
        Z == {p \in Rows(n) : seq[p] = 0}
    IN  IF Z = {} THEN n ELSE CHOOSE p \in Z : \A q \in Z : p <= q

\* Vocabulary decode: the tokens before the first terminator.
decode(seq) == [k \in 1 .. FirstZero(seq) |-> seq[k - 1]]

RECURSIVE Weight(_)
Weight(str) == IF str = <<>> THEN 0 ELSE Head(str) + Weight(Tail(str))

\* Validity flag of a decoded string (1 valid, 0 invalid): a fixed function
\* of the string for a given environment.
IsValid(str, seed) == IF (Weight(str) + seed) % 2 = 0 THEN 1 ELSE 0

\* The predictor's raw score of a string, in tenths (0, 0.5 or 1.0): a fixed
\* function of the string, defined for invalid strings too.
Score(str, seed) == ((Weight(str) + 2 * seed) % 3) * 5

\* util.check_smiles(seqs, voc): the decoded strings and their flags.
check_smiles_smiles(sq) == [s \in DOMAIN sq |-> decode(sq[s])]

check_smiles_valids(sq, seed) == [s \in DOMAIN sq |-> IsValid(decode(sq[s]), seed)]

\* environ(smiles): one score per string.
environ(sm, seed) == [s \in DOMAIN sm |-> Score(sm[s], seed)]

\* Generator.likelihood(seqs): the log-likelihood of every token of every
\* sequence, a fixed function of the sequences for given parameters.
likelihood_scores(sq) == [s \in DOMAIN sq |-> [p \in DOMAIN sq[s] |-> -(1 + sq[s][p])]]

\* Generator.likelihood(seqs): the hidden-state trace; the recurrent state at
\* position i is a function of the tokens 0..i, kept as those tokens.
likelihood_hiddens(sq) ==
    [s \in DOMAIN sq |-> [i \in DOMAIN sq[s] |-> [p \in Rows(i + 1) |-> sq[s][p]]]]

\* Number of tokens the continuation sampler emits from position start.
SuffixLen(len, start) == len - start

------------------------------------------------------------------------------
\* rollout_pg, agent.py:61-101

\* preds = environ(smiles) - baseline
MinusBaseline(p, b) == [s \in DOMAIN p |-> p[s] - b]

\* preds[valids == False] = - baseline : a boolean mask over the batch.
FloorByMaskDouble(p, v, b) == [s \in DOMAIN p |-> IF v[s] = 0 THEN -(2 * b) ELSE p[s]]

FloorByMask(p, v, b) == [s \in DOMAIN p |-> IF v[s] = 0 THEN -b ELSE p[s]]

\* The index array 1 - subvalid: an array of the integers 0 and 1.
FloorIndices(v) == {1 - v[s] : s \in DOMAIN v}

\* subpred[1 - subvalid] = -baseline raises IndexError when an index is not
\* a position of subpred.
FloorRaises(p, v) == \E k \in FloorIndices(v) : k \notin DOMAIN p

\* subpred[1 - subvalid] = -baseline : integer (fancy) indexing writes the
\* positions named by the index array.
FloorByIndex(p, v, b) == [s \in DOMAIN p |-> IF s \in FloorIndices(v) THEN -b ELSE p[s]]

\* (seqs[:, i] != 0).any()
AnyUnterminatedAlways(sq, i) == TRUE

AnyUnterminated(sq, i) == \E s \in DOMAIN sq : sq[s][i] # 0

\* torch.cat([seqs[:, :i+1], subseqs], dim=1)
Concat(sq, suf, i) ==
    [s \in DOMAIN sq |->
        [p \in Rows(i + 1 + Cardinality(DOMAIN suf[s])) |->
            IF p <= i THEN sq[s][p] ELSE suf[s][p - i - 1]]]

\* h = hiddens[:, :, i, :] ; inits=(seqs[:, i], h, i + 1, None)
RolloutInitsFromStart(sq, hid, i) ==
    [tokens |-> [s \in DOMAIN sq |-> sq[s][i]],
     h      |-> [s \in DOMAIN sq |-> hid[s][i]],
     start  |-> i]

RolloutInits(sq, hid, i) ==
    [tokens |-> [s \in DOMAIN sq |-> sq[s][i]],
     h      |-> [s \in DOMAIN sq |-> hid[s][i]],
     start  |-> i + 1]

\* rewards[:, i] += subpred
AccumulateOverwrite(rw, i, sp) ==
    [s \in DOMAIN rw |-> [p \in DOMAIN rw[s] |-> IF p = i THEN sp[s] ELSE rw[s][p]]]

Accumulate(rw, i, sp) ==
    [s \in DOMAIN rw |-> [p \in DOMAIN rw[s] |-> IF p = i THEN rw[s][p] + sp[s] ELSE rw[s][p]]]

\* subpred = preds
ReuseZero(p) == [s \in DOMAIN p |-> 0]

Reuse(p) == p

\* rewards / mc
AverageByLen(rw, n) == [s \in DOMAIN rw |-> [p \in DOMAIN rw[s] |-> Ratio(rw[s][p], Cardinality(DOMAIN rw[s]))]]

Average(rw, n) == [s \in DOMAIN rw |-> [p \in DOMAIN rw[s] |-> Ratio(rw[s][p], n)]]

\* agent.PGLoss(scores, seqs, torch.FloatTensor(rewards / mc))
PGLossArgsRollout(sc, sq, sub, rw, m) ==
    [scores |-> sc, seqs |-> sub, rewards |-> Average(rw, m)]

PGLossArgs(sc, sq, sub, rw, m) ==
    [scores |-> sc, seqs |-> sq, rewards |-> Average(rw, m)]

\* return 0, valids.mean(), smiles, preds
ReturnLastSubpred(v, sm, p, sp) ==
    [status |-> 0, valid |-> Ratio(SumTo(v, Cardinality(DOMAIN v)), Cardinality(DOMAIN v)),
     smiles |-> sm, preds |-> sp]

ReturnTuple(v, sm, p, sp) ==
    [status |-> 0, valid |-> Ratio(SumTo(v, Cardinality(DOMAIN v)), Cardinality(DOMAIN v)),
     smiles |-> sm, preds |-> p]

Ev(op, i) == <<op, i>>

\* State on entry to either step function, for given hyperparameters.
Entry(start, n, len, m) ==
    /\ pc = start
    /\ batch_size = n
    /\ seq_len = len
    /\ mc = m
    /\ baseline \in Baselines
    /\ envSeed \in EnvSeeds
    /\ seqs = Empty /\ smiles = Empty /\ valids = Empty /\ preds = Empty
    /\ rewards = Empty /\ subpred = Empty /\ contribs = Empty
    /\ subseqs = Empty
    /\ params = 0
    /\ scores = Empty /\ hiddens = Empty /\ inits = Empty
    /\ last = [branch |-> "NONE", pos |-> -1]
    /\ rep = 0 /\ pos = 0
    /\ log = <<>>
    /\ loader = <<>>
    /\ lossArgs = Empty
    /\ ret = Empty

Init ==
    \E n \in 1 .. MaxBatch, len \in 1 .. MaxLen, m \in 1 .. MaxMC :
        /\ n * m * ((len * (len - 1)) \div 2) <= MaxResampled
        /\ Entry("zero_grad", n, len, m)

\* agent.optim.zero_grad()
ZeroGrad ==
    /\ pc = "zero_grad"
    /\ pc' = "sample"
    /\ log' = Append(log, Ev("zero_grad", -1))
    /\ UNCHANGED <<batch_size, seq_len, mc, baseline, envSeed, seqs, smiles, valids,
                   preds, rewards, rep, pos, subpred, contribs, loader, lossArgs, ret, subseqs, last, params, scores, hiddens, inits>>

\* seqs = agent.sample(batch_size, ...); rewards = np.zeros((batch_size, seq_len))
SampleFrom(B) ==
    /\ pc = "sample"
    /\ \E sq \in B : seqs' = sq
    /\ rewards' = [s \in Rows(batch_size) |-> [p \in Rows(seq_len) |-> 0]]
    /\ contribs' = [p \in Rows(seq_len) |-> <<>>]
    /\ pc' = "check"
    /\ log' = Append(log, Ev("sample", -1))
    /\ UNCHANGED <<batch_size, seq_len, mc, baseline, envSeed, smiles, valids,
                   preds, rep, pos, subpred, loader, lossArgs, ret, subseqs, last, params, scores, hiddens, inits>>

Sample == SampleFrom(SampleBatches(batch_size, seq_len))

\* smiles, valids = util.check_smiles(seqs, agent.voc)
\* preds = environ(smiles) - baseline ; preds[valids == False] = - baseline
CheckAndScore ==
    /\ pc = "check"
    /\ smiles' = check_smiles_smiles(seqs)
    /\ valids' = check_smiles_valids(seqs, envSeed)
    /\ preds' = FloorByMask(MinusBaseline(environ(check_smiles_smiles(seqs), envSeed), baseline),
                            check_smiles_valids(seqs, envSeed), baseline)
    /\ pc' = "likelihood"
    /\ log' = log \o <<Ev("check_smiles", -1), Ev("environ", -1)>>
    /\ UNCHANGED <<batch_size, seq_len, mc, baseline, envSeed, seqs, rewards,
                   rep, pos, subpred, contribs, loader, lossArgs, ret, subseqs, last, params, scores, hiddens, inits>>

\* scores, hiddens = agent.likelihood(seqs)
Likelihood ==
    /\ pc = "likelihood"
    /\ scores' = likelihood_scores(seqs)
    /\ hiddens' = likelihood_hiddens(seqs)
    /\ pc' = "loop"
    /\ log' = Append(log, Ev("likelihood", -1))
    /\ UNCHANGED <<batch_size, seq_len, mc, baseline, envSeed, seqs, smiles, valids,
                   preds, rewards, rep, pos, subpred, contribs, loader, lossArgs, ret, subseqs, last, params, inits>>

\* The loop header: the next (repetition, position), or the loop's exit.
AdvanceOneRepetition ==
    /\ pos' = IF pos + 1 = seq_len THEN 0 ELSE pos + 1
    /\ rep' = IF pos + 1 = seq_len THEN rep + 1 ELSE rep
    /\ pc' = IF pos + 1 = seq_len THEN "pgloss" ELSE "loop"

Advance ==
    /\ pos' = IF pos + 1 = seq_len THEN 0 ELSE pos + 1
    /\ rep' = IF pos + 1 = seq_len THEN rep + 1 ELSE rep
    /\ pc' = IF pos + 1 = seq_len /\ rep + 1 = mc THEN "pgloss" ELSE "loop"

\* All suffix batches the continuation sampler can return from position i+1.
AllDraws(n, len) == [Rows(n) -> Padded(len)]

\* One iteration of the loop body whose gate is true: agent.py:89-94, 97.
RolloutFrom(D) ==
    /\ pc = "loop"
    /\ AnyUnterminated(seqs, pos)
    /\ inits' = RolloutInits(seqs, hiddens, pos)
    /\ \E suf \in D[SuffixLen(seq_len, inits'.start)] :
         LET sub      == Concat(seqs, suf, pos)
             subsmile == check_smiles_smiles(sub)
             subvalid == check_smiles_valids(sub, envSeed)
             raw      == MinusBaseline(environ(subsmile, envSeed), baseline)
         IN  /\ subseqs' = sub
             /\ IF FloorRaises(raw, subvalid)
                THEN /\ pc' = "IndexError"
                     /\ subpred' = raw
                     /\ UNCHANGED <<rewards, contribs, rep, pos>>
                ELSE /\ subpred' = FloorByIndex(raw, subvalid, baseline)
                     /\ rewards' = Accumulate(rewards, pos, subpred')
                     /\ contribs' = [contribs EXCEPT ![pos] = Append(@, subpred')]
                     /\ Advance
    /\ last' = [branch |-> "ROLLOUT", pos |-> pos]
    /\ log' = log \o <<Ev("rollout_sample", pos), Ev("check_smiles", pos), Ev("environ", pos)>>
    /\ UNCHANGED <<batch_size, seq_len, mc, baseline, envSeed, seqs, smiles, valids,
                   preds, loader, lossArgs, ret, params, scores, hiddens>>

Rollout == RolloutFrom([len \in 0 .. seq_len |-> AllDraws(batch_size, len)])

\* One iteration of the loop body whose gate is false: agent.py:96-97.
ReuseStep ==
    /\ pc = "loop"
    /\ ~AnyUnterminated(seqs, pos)
    /\ subpred' = Reuse(preds)
    /\ rewards' = Accumulate(rewards, pos, subpred')
    /\ contribs' = [contribs EXCEPT ![pos] = Append(@, subpred')]
    /\ Advance
    /\ last' = [branch |-> "REUSE", pos |-> pos]
    /\ UNCHANGED <<batch_size, seq_len, mc, baseline, envSeed, seqs, smiles, valids,
                   preds, log, loader, lossArgs, ret, subseqs, params, scores, hiddens, inits>>

\* loss = agent.PGLoss(scores, seqs, torch.FloatTensor(rewards / mc))
PGLoss ==
    /\ pc = "pgloss"
    /\ lossArgs' = PGLossArgs(scores, seqs, subseqs, rewards, mc)
    /\ pc' = "backward"
    /\ log' = Append(log, Ev("PGLoss", -1))
    /\ UNCHANGED <<batch_size, seq_len, mc, baseline, envSeed, seqs, smiles, valids,
                   preds, rewards, rep, pos, subpred, contribs, loader, ret, subseqs, last, params, scores, hiddens, inits>>

\* loss.backward()
Backward ==
    /\ pc = "backward"
    /\ pc' = "step"
    /\ log' = Append(log, Ev("backward", -1))
    /\ UNCHANGED <<batch_size, seq_len, mc, baseline, envSeed, seqs, smiles, valids,
                   preds, rewards, rep, pos, subpred, contribs, loader, lossArgs, ret, subseqs, last, params, scores, hiddens, inits>>

\* agent.optim.step()
OptimStep ==
    /\ pc = "step"
    /\ pc' = "return"
    /\ params' = params + 1
    /\ log' = Append(log, Ev("optim_step", -1))
    /\ UNCHANGED <<batch_size, seq_len, mc, baseline, envSeed, seqs, smiles, valids,
                   preds, rewards, rep, pos, subpred, contribs, loader, lossArgs, ret, subseqs, last, scores, hiddens, inits>>

\* return 0, valids.mean(), smiles, preds
Return ==
    /\ pc = "return"
    /\ ret' = ReturnTuple(valids, smiles, preds, subpred)
    /\ pc' = "done"
    /\ UNCHANGED <<batch_size, seq_len, mc, baseline, envSeed, seqs, smiles, valids,
                   preds, rewards, rep, pos, subpred, contribs, log, loader, lossArgs, subseqs, last, params, scores, hiddens, inits>>

Next ==
    \/ ZeroGrad
    \/ Sample
    \/ CheckAndScore
    \/ Likelihood
    \/ Rollout
    \/ ReuseStep
    \/ PGLoss
    \/ Backward
    \/ OptimStep
    \/ Return

Spec == Init /\ [][Next]_vars

------------------------------------------------------------------------------
\* Scenario A of the test plan: batch_size=4, seq_len=5, mc=3, every sequence
\* terminated at position 2.

InitA == Entry("zero_grad", 4, 5, 3)

\* The batches whose rows all hold their first terminator at position 2.
ScenarioABatches ==
    {b \in SampleBatches(batch_size, seq_len) : \A s \in DOMAIN b : FirstZero(b[s]) = 2}

\* len tokens: m non-terminators, then padding.
PadTo(m, len) == [p \in Rows(len) |-> IF p < m THEN 1 ELSE 0]

\* The draws of the continuation sampler explored in scenario A: row s
\* continues with (k + s) mod (len + 1) tokens, for each k.
StaggeredDraws(n, len) ==
    {[s \in Rows(n) |-> PadTo((k + s) % (len + 1), len)] : k \in 0 .. len}

SampleA == SampleFrom(ScenarioABatches)

RolloutA == RolloutFrom([len \in 0 .. seq_len |-> StaggeredDraws(batch_size, len)])

NextA ==
    \/ ZeroGrad
    \/ SampleA
    \/ CheckAndScore
    \/ Likelihood
    \/ RolloutA
    \/ ReuseStep
    \/ PGLoss
    \/ Backward
    \/ OptimStep
    \/ Return

SpecA == InitA /\ [][NextA]_vars

------------------------------------------------------------------------------
\* PG.__call__, agent.py:29-58. self.beta is held in baseline.

\* Number of sequences exploit.sample(batch_size, mc=mc) returns.
SampleSize(n, m) == n

\* preds = environ.predictSMILES(smiles); preds[valids == False] = 0;
\* preds -= self.beta
PGAdvantageRaw(raw, v, beta) == [s \in DOMAIN raw |-> raw[s] - beta]

PGAdvantage(raw, v, beta) ==
    [s \in DOMAIN raw |-> (IF v[s] = 0 THEN 0 ELSE raw[s]) - beta]

\* DataLoader(ds, batch_size=self.batch_size): the rows of each mini-batch,
\* in order; the last one may be short.
DataLoaderSingly(n, bs) == [k \in 1 .. n |-> {k - 1}]

DataLoader(n, bs) ==
    [k \in 1 .. ((n + bs - 1) \div bs) |->
        {s \in Rows(n) : (k - 1) * bs <= s /\ s < k * bs}]

InitPG ==
    \E n \in 1 .. MaxBatch, len \in 1 .. MaxLen, m \in 1 .. MaxMC :
        Entry("pg_sample", n, len, m)

\* smiles, valids, seqs = exploit.sample(self.batch_size, ..., mc=self.mc)
PGSample ==
    /\ pc = "pg_sample"
    /\ \E sq \in SampleBatches(SampleSize(batch_size, mc), seq_len) :
         /\ seqs' = sq
         /\ smiles' = check_smiles_smiles(sq)
         /\ valids' = check_smiles_valids(sq, envSeed)
    /\ pc' = "pg_predict"
    /\ log' = Append(log, Ev("sample", -1))
    /\ UNCHANGED <<batch_size, seq_len, mc, baseline, envSeed, preds, rewards,
                   rep, pos, subpred, contribs, loader, lossArgs, ret, subseqs, last, params, scores, hiddens, inits>>

\* agent.py:48-51
PGPredict ==
    /\ pc = "pg_predict"
    /\ preds' = PGAdvantage(environ(smiles, envSeed), valids, baseline)
    /\ pc' = "pg_loader"
    /\ log' = Append(log, Ev("predictSMILES", -1))
    /\ UNCHANGED <<batch_size, seq_len, mc, baseline, envSeed, seqs, smiles, valids,
                   rewards, rep, pos, subpred, contribs, loader, lossArgs, ret, subseqs, last, params, scores, hiddens, inits>>

\* agent.py:53-54
PGLoader ==
    /\ pc = "pg_loader"
    /\ loader' = DataLoader(Cardinality(DOMAIN seqs), batch_size)
    /\ pc' = "pg_train"
    /\ UNCHANGED <<batch_size, seq_len, mc, baseline, envSeed, seqs, smiles, valids,
                   preds, rewards, rep, pos, subpred, contribs, log, lossArgs, ret, subseqs, last, params, scores, hiddens, inits>>

\* for seq, pred in loader: exploit.policyUpdate(seq, pred)
PGUpdate ==
    /\ pc = "pg_train"
    /\ loader # <<>>
    /\ lossArgs' = Append(lossArgs, [seqs  |-> [s \in Head(loader) |-> seqs[s]],
                                     preds |-> [s \in Head(loader) |-> preds[s]]])
    /\ loader' = Tail(loader)
    /\ params' = params + 1
    /\ log' = Append(log, Ev("policyUpdate", -1))
    /\ UNCHANGED <<pc, batch_size, seq_len, mc, baseline, envSeed, seqs, smiles, valids,
                   preds, rewards, rep, pos, subpred, contribs, ret, subseqs, last, scores, hiddens, inits>>

\* The loader is exhausted: the call returns (None).
PGDone ==
    /\ pc = "pg_train"
    /\ loader = <<>>
    /\ pc' = "done"
    /\ UNCHANGED <<batch_size, seq_len, mc, baseline, envSeed, seqs, smiles, valids,
                   preds, rewards, rep, pos, subpred, contribs, log, loader, lossArgs, ret, subseqs, last, params, scores, hiddens, inits>>

NextPG ==
    \/ PGSample
    \/ PGPredict
    \/ PGLoader
    \/ PGUpdate
    \/ PGDone

SpecPG == InitPG /\ [][NextPG]_vars

------------------------------------------------------------------------------
\* Properties.

\* Number of calls of op at loop position i (-1: outside the loop) so far.
Count(op, i) == Cardinality({k \in DOMAIN log : log[k] = Ev(op, i)})

\* Number of calls of op so far, at any position.
CountOp(op) == Cardinality({k \in DOMAIN log : log[k][1] = op})

\* Step 2 of rollout_pg has run.
AfterCheck ==
    pc \in {"likelihood", "loop", "pgloss", "backward", "step", "return", "done", "IndexError"}

\* PGLoss has been called.
AfterLoss == pc \in {"backward", "step", "return", "done"}

\* The reward the contract of rollout_pg gives a sequence: -baseline when its
\* string is invalid, the Environment's score minus baseline otherwise.
StepReward(seq) ==
    IF IsValid(decode(seq), envSeed) = 0
    THEN -baseline
    ELSE Score(decode(seq), envSeed) - baseline

\* The advantage the contract of PG gives a sequence: 0 - beta when its
\* string is invalid, the Environment's score minus beta otherwise.
PGExpected(seq) ==
    IF IsValid(decode(seq), envSeed) = 0
    THEN 0 - baseline
    ELSE Score(decode(seq), envSeed) - baseline

\* Every sequence holds only terminators from position k on.
TerminatedBy(k) ==
    \A s \in DOMAIN seqs : \A p \in k .. (seq_len - 1) : seqs[s][p] = 0

\* How many loop iterations have entered position i.
Visits(i) ==
    rep + (IF pos > i THEN 1 ELSE 0) + (IF pc = "IndexError" /\ pos = i THEN 1 ELSE 0)

\* C1: in rollout_pg the step-2 reward of every sequence is -baseline when
\* its string is invalid and score - baseline when valid, and so is the
\* contribution of every sequence to rewards[:, i] in every rollout.
C1_FloorAtEveryRollout ==
    /\ AfterCheck => \A s \in DOMAIN preds : preds[s] = StepReward(seqs[s])
    /\ (last.branch = "ROLLOUT" /\ pc # "IndexError") =>
          \A s \in DOMAIN subseqs :
              contribs[last.pos][Len(contribs[last.pos])][s] = StepReward(subseqs[s])

\* C2: every advantage PG.__call__ passes to policyUpdate is 0 - beta for
\* an invalid string (not its raw score minus beta) and score - beta for a
\* valid one.
C2_PGAdvantage ==
    \A k \in DOMAIN lossArgs : \A s \in DOMAIN lossArgs[k].preds :
        lossArgs[k].preds[s] = PGExpected(lossArgs[k].seqs[s])

\* C2 witness: a completed call that trained on an invalid string whose raw
\* score is not 0.
C2_Witness ==
    /\ pc = "done"
    /\ \E k \in DOMAIN lossArgs : \E s \in DOMAIN lossArgs[k].preds :
          /\ valids[s] = 0
          /\ Score(smiles[s], envSeed) # 0
          /\ lossArgs[k].preds[s] = -baseline

C4_EarlyExit ==
    pc \notin {"zero_grad", "sample"} =>
        /\ \A k \in 0 .. (seq_len - 2) : TerminatedBy(k) =>
              \A i \in k .. (seq_len - 1) :
                  /\ Count("rollout_sample", i) = 0
                  /\ Count("environ", i) = 0
                  /\ Len(contribs[i]) = Visits(i)
                  /\ \A c \in DOMAIN contribs[i] : contribs[i][c] = preds
        /\ \A i \in Rows(seq_len) : AnyUnterminated(seqs, i) =>
              Count("rollout_sample", i) = Visits(i)

\* C4 witness: a completed call with seq_len 3 and mc 2 on a batch that
\* terminates at position 1: two rollouts at position 0, reuse at 1 and 2.
C4_Witness ==
    /\ pc = "done" /\ seq_len = 3 /\ mc = 2
    /\ TerminatedBy(1) /\ AnyUnterminated(seqs, 0)
    /\ Count("rollout_sample", 0) = 2
    /\ Len(contribs[1]) = 2 /\ Len(contribs[2]) = 2

\* The per-token reward handed to PGLoss at positions 2..4 is the step-2
\* reward, for every sequence.
ReusedAtTail ==
    \A s \in Rows(batch_size) : \A i \in 2 .. 4 :
        RatEq(lossArgs.rewards[s][i], Ratio(preds[s], 1))

\* C5 as stated: in scenario A the call makes exactly 2 rollout resample
\* calls in total, and the reward at positions 2..4 is the step-2 reward.
C5_TwoCallsInTotal ==
    AfterLoss => (CountOp("rollout_sample") = 2 /\ ReusedAtTail)

\* C5 amended: in scenario A the call makes exactly 2 rollout resample calls
\* per repetition (positions 0 and 1), 6 in total for mc = 3, and the reward
\* at positions 2..4 is the step-2 reward.
C5_TwoCallsPerRepetition ==
    AfterLoss =>
        /\ CountOp("rollout_sample") = 2 * mc
        /\ Count("rollout_sample", 0) = mc
        /\ Count("rollout_sample", 1) = mc
        /\ ReusedAtTail

\* C5 witness: scenario A has run to the end with its 6 rollouts.
C5_Witness ==
    /\ pc = "done" /\ batch_size = 4 /\ seq_len = 5 /\ mc = 3
    /\ \A s \in DOMAIN seqs : FirstZero(seqs[s]) = 2
    /\ CountOp("rollout_sample") = 6

\* C6: every cell of rewards receives exactly mc contributions and PGLoss
\* is given their sum divided by mc; for mc = 2, (r1 + r2) / 2.
C6_Average ==
    AfterLoss =>
        \A i \in Rows(seq_len) : \A s \in Rows(batch_size) :
            /\ Len(contribs[i]) = mc
            /\ RatEq(lossArgs.rewards[s][i], Ratio(SeqSum(contribs[i], s), mc))
            /\ mc = 2 => RatEq(lossArgs.rewards[s][i],
                               Ratio(contribs[i][1][s] + contribs[i][2][s], 2))

\* C6 witness: a completed call with mc = 2 in which the two repetitions
\* gave a cell different rewards.
C6_Witness ==
    /\ pc = "done" /\ mc = 2
    /\ \E i \in Rows(seq_len) : \E s \in Rows(batch_size) :
          contribs[i][1][s] # contribs[i][2][s]

\* C7 as stated: with baseline 0.2, a sequence whose step-1 string is
\* invalid gets per-token reward -0.2 at every position.
C7_InvalidEverywhere ==
    (AfterLoss /\ baseline = 2) =>
        \A s \in Rows(batch_size) : valids[s] = 0 =>
            \A i \in Rows(seq_len) : RatEq(lossArgs.rewards[s][i], Ratio(-2, 1))

\* C7 amended: with baseline 0.2, a sequence whose step-1 string is invalid
\* gets per-token reward -0.2 at every position where no sequence of the
\* batch holds a non-zero token (the positions that reuse the step-2 reward).
C7_InvalidAtReuse ==
    (AfterLoss /\ baseline = 2) =>
        \A s \in Rows(batch_size) : valids[s] = 0 =>
            \A i \in Rows(seq_len) : ~AnyUnterminated(seqs, i) =>
                RatEq(lossArgs.rewards[s][i], Ratio(-2, 1))

\* C7 witness: a completed call with baseline 0.2 and mc 2 on a batch with
\* an invalid sequence, a rollout position and a reuse position.
C7_Witness ==
    /\ pc = "done" /\ baseline = 2 /\ mc = 2
    /\ \E s \in Rows(batch_size) : valids[s] = 0
    /\ \E i \in Rows(seq_len) : ~AnyUnterminated(seqs, i)
    /\ \E i \in Rows(seq_len) : AnyUnterminated(seqs, i)

\* C8 as stated: for the same baseline and the same invalid string, the
\* step-2 reward of rollout_pg is strictly lower than the advantage of
\* PG.__call__.
C8_RolloutHarsher ==
    AfterCheck =>
        \A s \in Rows(batch_size) : valids[s] = 0 =>
            preds[s] < PGAdvantage(environ(smiles, envSeed), valids, baseline)[s]

\* C8 amended: for the same baseline and the same invalid string, the
\* step-2 reward of rollout_pg equals the advantage of PG.__call__ (both
\* are -baseline).
C8_SamePenalty ==
    AfterCheck =>
        \A s \in Rows(batch_size) : valids[s] = 0 =>
            preds[s] = PGAdvantage(environ(smiles, envSeed), valids, baseline)[s]

\* C8 witness: step 2 has scored an invalid string whose raw score is not 0.
C8_Witness ==
    /\ AfterCheck
    /\ \E s \in Rows(batch_size) :
          valids[s] = 0 /\ Score(smiles[s], envSeed) # 0 /\ preds[s] = -baseline

\* C9: a completed rollout_pg call returns (0, mean validity, decoded
\* strings, step-2 rewards), and smiles, valids and preds keep their step-2
\* values through every loop iteration.
C9_ReturnsStep2 ==
    LET sm  == [s \in Rows(batch_size) |-> decode(seqs[s])]
        va  == [s \in Rows(batch_size) |-> IsValid(decode(seqs[s]), envSeed)]
        pr  == [s \in Rows(batch_size) |-> StepReward(seqs[s])]
    IN  /\ AfterCheck => (smiles = sm /\ valids = va /\ preds = pr)
        /\ pc = "done" =>
              ret = [status |-> 0, valid |-> Ratio(SumTo(va, batch_size), batch_size),
                     smiles |-> sm, preds |-> pr]

\* C9 witness: a call has returned after both a rollout and a reuse
\* iteration, and its last rollout reward differs from the step-2 reward.
C9_Witness ==
    /\ pc = "done"
    /\ CountOp("rollout_sample") > 0
    /\ \E i \in Rows(seq_len) : ~AnyUnterminated(seqs, i)
    /\ \E i \in Rows(seq_len) : \E c \in DOMAIN contribs[i] : contribs[i][c] # preds

\* C10: rollout_pg raises no error on any batch: writing the invalid-reward
\* floor never indexes out of range.
C10_NeverRaises == pc # "IndexError"

\* Positions in the call log of the calls of op.
Idx(op) == {k \in DOMAIN log : log[k][1] = op}

\* Every call of b comes after a call of a.
Before(a, b) == \A j \in Idx(b) : \E k \in Idx(a) : k < j

\* Every call of a comes before every call of b.
AllBefore(a, b) == \A k \in Idx(a) : \A j \in Idx(b) : k < j

\* C11: in one rollout_pg call gradients are cleared before the first
\* sample; the full batch is sampled, checked and scored once; likelihood is
\* called once and before any rollout; all mc x seq_len accumulations are
\* done before PGLoss; then one PGLoss, one backward and one optimizer step
\* follow in that order, and the parameters change only at that step.
C11_CallOrder ==
    /\ log # <<>> => log[1] = Ev("zero_grad", -1)
    /\ \A op \in {"zero_grad", "sample", "likelihood", "PGLoss", "backward", "optim_step"} :
          CountOp(op) <= 1
    /\ Count("check_smiles", -1) <= 1 /\ Count("environ", -1) <= 1
    /\ Before("zero_grad", "sample") /\ Before("zero_grad", "rollout_sample")
    /\ Before("sample", "check_smiles") /\ Before("check_smiles", "environ")
    /\ Before("environ", "likelihood")
    /\ Before("likelihood", "rollout_sample")
    /\ AllBefore("rollout_sample", "PGLoss") /\ AllBefore("environ", "PGLoss")
    /\ Idx("PGLoss") # {} =>
          \A i \in Rows(seq_len) : Len(contribs[i]) = mc
    /\ Before("likelihood", "PGLoss")
    /\ Before("PGLoss", "backward") /\ Before("backward", "optim_step")
    /\ params = CountOp("optim_step")
    /\ pc = "done" =>
          /\ SubSeq(log, 1, 5) = <<Ev("zero_grad", -1), Ev("sample", -1), Ev("check_smiles", -1),
                                   Ev("environ", -1), Ev("likelihood", -1)>>
          /\ SubSeq(log, Len(log) - 2, Len(log)) =
                <<Ev("PGLoss", -1), Ev("backward", -1), Ev("optim_step", -1)>>
          /\ params = 1

\* C11 witness: a call with mc = 2 has made rollouts and returned after
\* its optimizer step.
C11_Witness ==
    /\ pc = "done" /\ mc = 2 /\ seq_len >= 2
    /\ CountOp("rollout_sample") >= 2
    /\ params = 1

\* C12: every rollout at position i is seeded with the tokens seqs[:, i],
\* the hidden states hiddens[:, :, i, :] and start position i + 1, and the
\* sequences it scores agree with the sampled ones on positions 0..i and
\* have length seq_len.
C12_RolloutSeed ==
    last.branch = "ROLLOUT" =>
        /\ inits.tokens = [s \in Rows(batch_size) |-> seqs[s][last.pos]]
        /\ inits.h = [s \in Rows(batch_size) |-> hiddens[s][last.pos]]
        /\ inits.start = last.pos + 1
        /\ \A s \in Rows(batch_size) :
              /\ DOMAIN subseqs[s] = Rows(seq_len)
              /\ \A p \in 0 .. last.pos : subseqs[s][p] = seqs[s][p]

\* C12 witness: a rollout at position 1 of 3 whose resampled suffix differs
\* from the sampled sequence.
C12_Witness ==
    /\ last.branch = "ROLLOUT" /\ seq_len = 3 /\ last.pos = 1
    /\ \E s \in Rows(batch_size) : subseqs[s][2] # seqs[s][2]

\* C13: during a rollout_pg call the sampled sequences, the likelihood
\* scores and the hidden-state trace are only read: once produced they keep
\* their value through every loop iteration and to the end of the call, and
\* PGLoss is given the sampled sequences and those scores, not the
\* sequences of a rollout.
C13_ReadOnly ==
    [][ /\ pc \in {"check", "likelihood", "loop", "pgloss", "backward", "step", "return"} =>
              seqs' = seqs
        /\ pc \in {"loop", "pgloss", "backward", "step", "return"} =>
              /\ scores' = scores /\ hiddens' = hiddens
              /\ scores' = likelihood_scores(seqs')
              /\ hiddens' = likelihood_hiddens(seqs')
        /\ pc = "pgloss" =>
              /\ lossArgs'.seqs = seqs
              /\ lossArgs'.scores = scores ]_vars

\* C13 witness: a call has returned after rollouts whose last scored
\* sequences differ from the sampled ones.
C13_Witness ==
    /\ pc = "done"
    /\ CountOp("rollout_sample") >= 2
    /\ subseqs # seqs
    /\ lossArgs.seqs = seqs

\* C14: when a rollout is made at position i, a sequence whose first
\* terminator is at or before i decodes to the same string as in step 2, and
\* the reward accumulated into its cell of rewards[:, i] is its step-2
\* reward.
C14_TerminatedRowKeepsReward ==
    (last.branch = "ROLLOUT" /\ pc # "IndexError") =>
        \A s \in Rows(batch_size) : FirstZero(seqs[s]) <= last.pos =>
            /\ decode(subseqs[s]) = smiles[s]
            /\ contribs[last.pos][Len(contribs[last.pos])][s] = preds[s]

\* The decoding half of C14 alone.
C14_SameString ==
    last.branch = "ROLLOUT" =>
        \A s \in Rows(batch_size) : FirstZero(seqs[s]) <= last.pos =>
            decode(subseqs[s]) = smiles[s]

====
